---- MODULE Spec2Model ----
(***************************************************************************)
(* Model of src/src/fees.rs: the Fees record, its nine fee functions and   *)
(* its Pack implementation (pack_into_slice / unpack_from_slice).          *)
(*                                                                         *)
(* The functions are pure; the state machine is a caller that owns one     *)
(* Fees value and one byte region, replaces either wholesale, and calls    *)
(* the functions on them.  `op`, `amount`, `n_coins`, `ret` record the     *)
(* last call and its outcome, `pre` the ledger and region at its entry     *)
(* (for a replacement by the caller, the ledger and region after it).      *)
(*                                                                         *)
(* Widths are scaled so that TLC can compute with them: a byte is a digit  *)
(* in radix ByteBase (256 in the code), a u64 has WordBytes bytes (8 in    *)
(* the code), and U256 is twice as wide as u64 (four times in the code),   *)
(* which still lets every product of two u64 values fit in it.             *)
(***************************************************************************)
EXTENDS Integers, Sequences, FiniteSets, TLC

VARIABLES fees, buf, op, amount, n_coins, ret, pre

vars == <<fees, buf, op, amount, n_coins, ret, pre>>

(* ---------------------------------------------------------------- widths *)

\* radix of one byte (u8: 256 in the code)
ByteBase == 2

\* bytes of one u64 (8 in the code)
WordBytes == 5

\* number of u64 fields of Fees
NFields == 16

\* u64::MAX
U64MAX == ByteBase ^ WordBytes - 1

\* U256::MAX
U256MAX == (U64MAX + 1) * (U64MAX + 1) - 1

\* Pack::LEN (128 = 16 * 8 in the code)
LEN == NFields * WordBytes

(* --------------------------------------------------------------- Option *)

None == [tag |-> "None"]

Some(v) == [tag |-> "Some", val |-> v]

\* u64::checked_mul
u64_checked_mul(a, b) == IF a * b > U64MAX THEN None ELSE Some(a * b)

\* u64::checked_sub
u64_checked_sub(a, b) == IF a < b THEN None ELSE Some(a - b)

\* u64::checked_div
u64_checked_div(a, b) == IF b = 0 THEN None ELSE Some(a \div b)

\* U256::checked_mul
U256_checked_mul(a, b) == IF a * b > U256MAX THEN None ELSE Some(a * b)

\* U256::checked_div
U256_checked_div(a, b) == IF b = 0 THEN None ELSE Some(a \div b)

\* `x?.checked_div(d)` on U256: the `?` returns None early
U256_then_div(m, d) == IF m = None THEN None ELSE U256_checked_div(m.val, d)

(* ------------------------------------------------------------ fee engine *)

admin_trade_fee(self, fee_amount) ==
    U256_then_div(U256_checked_mul(fee_amount, self.admin_trade_fee_numerator),
                  self.admin_trade_fee_denominator)

admin_withdraw_fee(self, fee_amount) ==
    U256_then_div(U256_checked_mul(fee_amount, self.admin_withdraw_fee_numerator),
                  self.admin_withdraw_fee_denominator)

\* variant: divides by the denominator before multiplying
trade_fee_div_first(self, trade_amount) ==
    LET q == U256_checked_div(trade_amount, self.trade_fee_denominator)
    IN  IF q = None THEN None
        ELSE U256_checked_mul(q.val, self.trade_fee_numerator)

trade_fee(self, trade_amount) ==
    U256_then_div(U256_checked_mul(trade_amount, self.trade_fee_numerator),
                  self.trade_fee_denominator)

\* variant: a failed computation reported as a fee of 0
withdraw_fee_unwrap_or_zero(self, withdraw_amount) ==
    LET r == U256_then_div(U256_checked_mul(withdraw_amount, self.withdraw_fee_numerator),
                           self.withdraw_fee_denominator)
    IN  IF r = None THEN Some(0) ELSE r

withdraw_fee(self, withdraw_amount) ==
    U256_then_div(U256_checked_mul(withdraw_amount, self.withdraw_fee_numerator),
                  self.withdraw_fee_denominator)

reflection_fee(self, reflection_amount) ==
    U256_then_div(U256_checked_mul(reflection_amount, self.reflection_fee_numerator),
                  self.reflection_fee_denominator)

buyback_fee(self, buyback_amount) ==
    U256_then_div(U256_checked_mul(buyback_amount, self.buyback_fee_numerator),
                  self.buyback_fee_denominator)

marketing_fee(self, marketing_amount) ==
    U256_then_div(U256_checked_mul(marketing_amount, self.marketing_fee_numerator),
                  self.marketing_fee_denominator)

developer_fee(self, developer_amount) ==
    U256_then_div(U256_checked_mul(developer_amount, self.developer_fee_numerator),
                  self.developer_fee_denominator)

\* variant: divisor 4 * n_coins instead of 4 * (n_coins - 1)
adjusted_divisor_n_coins(self, n) ==
    LET m == u64_checked_mul(self.trade_fee_numerator, n)
        d == u64_checked_mul(n, 4)
    IN  IF m = None \/ d = None THEN None ELSE u64_checked_div(m.val, d.val)

\* variant: divides by 4 first, then multiplies by n_coins and divides by n_coins - 1
adjusted_divide_by_4_first(self, n) ==
    LET q == u64_checked_div(self.trade_fee_numerator, 4)
        m == u64_checked_mul(q.val, n)
        s == u64_checked_sub(n, 1)
    IN  IF m = None \/ s = None THEN None ELSE u64_checked_div(m.val, s.val)

\* variant: the adjusted numerator computed in U256 instead of u64
adjusted_in_working_precision(self, n) ==
    LET m == U256_checked_mul(self.trade_fee_numerator, n)
        s == u64_checked_sub(n, 1)
        d == IF s = None THEN None ELSE U256_checked_mul(s.val, 4)
    IN  IF m = None \/ d = None THEN None ELSE U256_checked_div(m.val, d.val)

\* self.trade_fee_numerator.checked_mul(n_coins)?
\*     .checked_div((n_coins.checked_sub(1)?).checked_mul(4)?)?
adjusted_trade_fee_numerator(self, n) ==
    LET m == u64_checked_mul(self.trade_fee_numerator, n)
        s == u64_checked_sub(n, 1)
        d == IF s = None THEN None ELSE u64_checked_mul(s.val, 4)
    IN  IF m = None \/ d = None THEN None ELSE u64_checked_div(m.val, d.val)

normalized_trade_fee(self, n, amt) ==
    LET a == adjusted_trade_fee_numerator(self, n)
    IN  IF a = None THEN None
        ELSE U256_then_div(U256_checked_mul(amt, a.val), self.trade_fee_denominator)

(* ----------------------------------------------------------------- codec *)

\* the struct literal Fees { .. }, fields in declaration order
MkFees(s) ==
    [admin_trade_fee_numerator      |-> s[1],
     admin_trade_fee_denominator    |-> s[2],
     admin_withdraw_fee_numerator   |-> s[3],
     admin_withdraw_fee_denominator |-> s[4],
     trade_fee_numerator            |-> s[5],
     trade_fee_denominator          |-> s[6],
     withdraw_fee_numerator         |-> s[7],
     withdraw_fee_denominator       |-> s[8],
     reflection_fee_numerator       |-> s[9],
     reflection_fee_denominator     |-> s[10],
     buyback_fee_numerator          |-> s[11],
     buyback_fee_denominator        |-> s[12],
     marketing_fee_numerator        |-> s[13],
     marketing_fee_denominator      |-> s[14],
     developer_fee_numerator        |-> s[15],
     developer_fee_denominator      |-> s[16]]

\* Fees::default()
DefaultFees == MkFees([k \in 1..NFields |-> 0])

\* variant: most significant byte first
to_be_bytes(v) == [i \in 1..WordBytes |-> (v \div ByteBase ^ (WordBytes - i)) % ByteBase]

\* u64::to_le_bytes: byte i (from 0) is (v >> 8i) & 0xff
to_le_bytes(v) == [i \in 1..WordBytes |-> (v \div ByteBase ^ (i - 1)) % ByteBase]

RECURSIVE le_sum(_, _)
le_sum(b, i) == IF i > Len(b) THEN 0 ELSE b[i] * ByteBase ^ (i - 1) + le_sum(b, i + 1)

\* u64::from_le_bytes
from_le_bytes(b) == le_sum(b, 1)

\* the k-th (from 0) reference of array_refs![input, 8, 8, ..]
array_refs(a, k) == SubSeq(a, k * WordBytes + 1, (k + 1) * WordBytes)

\* variant: each trade/withdraw category read before its admin category
unpack_fields_trade_first(a) ==
    [trade_fee_numerator            |-> from_le_bytes(array_refs(a, 0)),
     trade_fee_denominator          |-> from_le_bytes(array_refs(a, 1)),
     admin_trade_fee_numerator      |-> from_le_bytes(array_refs(a, 2)),
     admin_trade_fee_denominator    |-> from_le_bytes(array_refs(a, 3)),
     withdraw_fee_numerator         |-> from_le_bytes(array_refs(a, 4)),
     withdraw_fee_denominator       |-> from_le_bytes(array_refs(a, 5)),
     admin_withdraw_fee_numerator   |-> from_le_bytes(array_refs(a, 6)),
     admin_withdraw_fee_denominator |-> from_le_bytes(array_refs(a, 7)),
     reflection_fee_numerator       |-> from_le_bytes(array_refs(a, 8)),
     reflection_fee_denominator     |-> from_le_bytes(array_refs(a, 9)),
     buyback_fee_numerator          |-> from_le_bytes(array_refs(a, 10)),
     buyback_fee_denominator        |-> from_le_bytes(array_refs(a, 11)),
     marketing_fee_numerator        |-> from_le_bytes(array_refs(a, 12)),
     marketing_fee_denominator      |-> from_le_bytes(array_refs(a, 13)),
     developer_fee_numerator        |-> from_le_bytes(array_refs(a, 14)),
     developer_fee_denominator      |-> from_le_bytes(array_refs(a, 15))]

\* the destructuring of the 128-byte array and the Ok(Self { .. }) built from it
unpack_fields(a) ==
    [admin_trade_fee_numerator      |-> from_le_bytes(array_refs(a, 0)),
     admin_trade_fee_denominator    |-> from_le_bytes(array_refs(a, 1)),
     admin_withdraw_fee_numerator   |-> from_le_bytes(array_refs(a, 2)),
     admin_withdraw_fee_denominator |-> from_le_bytes(array_refs(a, 3)),
     trade_fee_numerator            |-> from_le_bytes(array_refs(a, 4)),
     trade_fee_denominator          |-> from_le_bytes(array_refs(a, 5)),
     withdraw_fee_numerator         |-> from_le_bytes(array_refs(a, 6)),
     withdraw_fee_denominator       |-> from_le_bytes(array_refs(a, 7)),
     reflection_fee_numerator       |-> from_le_bytes(array_refs(a, 8)),
     reflection_fee_denominator     |-> from_le_bytes(array_refs(a, 9)),
     buyback_fee_numerator          |-> from_le_bytes(array_refs(a, 10)),
     buyback_fee_denominator        |-> from_le_bytes(array_refs(a, 11)),
     marketing_fee_numerator        |-> from_le_bytes(array_refs(a, 12)),
     marketing_fee_denominator      |-> from_le_bytes(array_refs(a, 13)),
     developer_fee_numerator        |-> from_le_bytes(array_refs(a, 14)),
     developer_fee_denominator      |-> from_le_bytes(array_refs(a, 15))]

\* variant: a zero trade or withdraw denominator rejected at decode time
unpack_from_slice_validating(input) ==
    IF Len(input) < LEN THEN [tag |-> "Panic"]
    ELSE LET r == unpack_fields(SubSeq(input, 1, LEN))
         IN  IF r.trade_fee_denominator = 0 \/ r.withdraw_fee_denominator = 0
             THEN [tag |-> "Err"]
             ELSE [tag |-> "Ok", val |-> r]

\* array_ref![input, 0, 128] is &input[0..128]: it panics on a shorter slice
unpack_from_slice(input) ==
    IF Len(input) < LEN THEN [tag |-> "Panic"]
    ELSE [tag |-> "Ok", val |-> unpack_fields(SubSeq(input, 1, LEN))]

\* the sixteen assignments *field = self.field.to_le_bytes()
packed_fields(self) ==
    to_le_bytes(self.admin_trade_fee_numerator) \o
    to_le_bytes(self.admin_trade_fee_denominator) \o
    to_le_bytes(self.admin_withdraw_fee_numerator) \o
    to_le_bytes(self.admin_withdraw_fee_denominator) \o
    to_le_bytes(self.trade_fee_numerator) \o
    to_le_bytes(self.trade_fee_denominator) \o
    to_le_bytes(self.withdraw_fee_numerator) \o
    to_le_bytes(self.withdraw_fee_denominator) \o
    to_le_bytes(self.reflection_fee_numerator) \o
    to_le_bytes(self.reflection_fee_denominator) \o
    to_le_bytes(self.buyback_fee_numerator) \o
    to_le_bytes(self.buyback_fee_denominator) \o
    to_le_bytes(self.marketing_fee_numerator) \o
    to_le_bytes(self.marketing_fee_denominator) \o
    to_le_bytes(self.developer_fee_numerator) \o
    to_le_bytes(self.developer_fee_denominator)

\* variant: as many bytes as fit are written into a short region
pack_into_slice_truncating(self, output) ==
    IF Len(output) < LEN
    THEN [tag |-> "Ok", output |-> SubSeq(packed_fields(self), 1, Len(output))]
    ELSE [tag |-> "Ok",
          output |-> packed_fields(self) \o SubSeq(output, LEN + 1, Len(output))]

\* array_mut_ref![output, 0, 128] is &mut output[0..128]: it panics on a shorter
\* slice, before any byte is written; bytes past 128 are left as they were
pack_into_slice(self, output) ==
    IF Len(output) < LEN
    THEN [tag |-> "Panic", output |-> output]
    ELSE [tag |-> "Ok",
          output |-> packed_fields(self) \o SubSeq(output, LEN + 1, Len(output))]

(* ---------------------------------------------------------------- inputs *)

\* the ledger of the tests: 1, 2, .., 16 over the sixteen fields
TestFees == MkFees([k \in 1..NFields |-> k])

\* the test ledger with the denominator of category c (from 0) set to zero
ZeroDenominator(c) == MkFees([k \in 1..NFields |-> IF k = 2 * c + 2 THEN 0 ELSE k])

\* every category with the same numerator n and denominator d
Uniform(n, d) == MkFees([k \in 1..NFields |-> IF k % 2 = 1 THEN n ELSE d])

\* ledgers a caller may hold
SampleFees ==
    {DefaultFees, TestFees,
     MkFees([k \in 1..NFields |-> NFields + 1 - k]),
     MkFees([k \in 1..NFields |-> U64MAX - k + 1])}
    \cup {ZeroDenominator(c) : c \in 0..7}
    \cup {Uniform(n, d) : n \in {0, 3, U64MAX}, d \in {0, 1, 7}}

\* byte regions a caller may supply: too short, exact, and longer than LEN
SampleBuffers ==
    {<<>>,
     [i \in 1..WordBytes |-> ByteBase - 1],
     [i \in 1..(LEN - 1) |-> 0],
     [i \in 1..LEN |-> 0],
     [i \in 1..LEN |-> ByteBase - 1],
     [i \in 1..LEN |-> IF i % 3 = 0 THEN 1 ELSE 0],
     [i \in 1..(LEN + 2) |-> IF i % 3 = 0 THEN 1 ELSE 0],
     [i \in 1..(LEN + 2) |-> IF i % 3 = 0 \/ i > LEN THEN 1 ELSE 0]}

\* amounts (U256) a caller may pass
SampleAmounts ==
    {0, 1, 6, 83, 100, U256MAX \div 5, U256MAX \div 5 + 1, U256MAX \div 2 + 1, U256MAX}

\* pool sizes (u64) a caller may pass
SampleNCoins == {0, 1, 2, 3, U64MAX \div 4 + 1, U64MAX \div 4 + 2, U64MAX}

(* ----------------------------------------------------------- state machine *)

Unit == [tag |-> "Unit"]

\* the ledger and the byte region a call starts from
Entry == [fees |-> fees, buf |-> buf]

Init ==
    /\ fees = DefaultFees
    /\ buf = [i \in 1..LEN |-> 0]
    /\ op = "init"
    /\ amount = 0
    /\ n_coins = 0
    /\ ret = Unit
    /\ pre = [fees |-> DefaultFees, buf |-> [i \in 1..LEN |-> 0]]

\* the caller replaces its ledger wholesale
NewFees ==
    \E l \in SampleFees :
        /\ fees' = l
        /\ op' = "Fees"
        /\ ret' = Unit
        /\ pre' = [fees |-> l, buf |-> buf]
        /\ amount' = 0
        /\ n_coins' = 0
        /\ UNCHANGED buf

\* the caller supplies another byte region
NewBuffer ==
    \E b \in SampleBuffers :
        /\ buf' = b
        /\ op' = "buffer"
        /\ ret' = Unit
        /\ pre' = [fees |-> fees, buf |-> b]
        /\ amount' = 0
        /\ n_coins' = 0
        /\ UNCHANGED fees

\* a call of a fee function: nothing but the recorded call changes
FeeCall(name, amt, n, r) ==
    /\ op' = name
    /\ amount' = amt
    /\ n_coins' = n
    /\ ret' = r
    /\ pre' = Entry
    /\ UNCHANGED <<fees, buf>>

AdminTradeFee ==
    \E a \in SampleAmounts : FeeCall("admin_trade_fee", a, 0, admin_trade_fee(fees, a))

AdminWithdrawFee ==
    \E a \in SampleAmounts : FeeCall("admin_withdraw_fee", a, 0, admin_withdraw_fee(fees, a))

TradeFee ==
    \E a \in SampleAmounts : FeeCall("trade_fee", a, 0, trade_fee(fees, a))

WithdrawFee ==
    \E a \in SampleAmounts : FeeCall("withdraw_fee", a, 0, withdraw_fee(fees, a))

ReflectionFee ==
    \E a \in SampleAmounts : FeeCall("reflection_fee", a, 0, reflection_fee(fees, a))

BuybackFee ==
    \E a \in SampleAmounts : FeeCall("buyback_fee", a, 0, buyback_fee(fees, a))

MarketingFee ==
    \E a \in SampleAmounts : FeeCall("marketing_fee", a, 0, marketing_fee(fees, a))

DeveloperFee ==
    \E a \in SampleAmounts : FeeCall("developer_fee", a, 0, developer_fee(fees, a))

NormalizedTradeFee ==
    \E a \in SampleAmounts, n \in SampleNCoins :
        FeeCall("normalized_trade_fee", a, n, normalized_trade_fee(fees, n, a))

\* Fees::unpack_from_slice(&buf); the caller keeps the decoded ledger
UnpackFromSlice ==
    LET r == unpack_from_slice(buf)
    IN  /\ op' = "unpack_from_slice"
        /\ ret' = r
        /\ fees' = IF r.tag = "Ok" THEN r.val ELSE fees
        /\ pre' = Entry
        /\ amount' = 0
        /\ n_coins' = 0
        /\ UNCHANGED buf

\* fees.pack_into_slice(&mut buf)
PackIntoSlice ==
    LET r == pack_into_slice(fees, buf)
    IN  /\ op' = "pack_into_slice"
        /\ ret' = [tag |-> r.tag]
        /\ buf' = r.output
        /\ pre' = Entry
        /\ amount' = 0
        /\ n_coins' = 0
        /\ UNCHANGED fees

\* the fee engine: the caller's ledger and the nine fee functions
NextFees ==
    \/ NewFees
    \/ AdminTradeFee
    \/ AdminWithdrawFee
    \/ TradeFee
    \/ WithdrawFee
    \/ ReflectionFee
    \/ BuybackFee
    \/ MarketingFee
    \/ DeveloperFee
    \/ NormalizedTradeFee

\* the codec: the caller's ledger and byte region, pack and unpack
NextCodec ==
    \/ NewFees
    \/ NewBuffer
    \/ UnpackFromSlice
    \/ PackIntoSlice

Next == NextFees \/ NextCodec

\* the fee engine and the codec share no state but the ledger; each is also
\* explored on its own
SpecFees == Init /\ [][NextFees]_vars

SpecCodec == Init /\ [][NextCodec]_vars

Spec == Init /\ [][Next]_vars

(* ------------------------------------------------------ claims: fee engine *)

SimpleFeeOps ==
    {"trade_fee", "admin_trade_fee", "withdraw_fee", "admin_withdraw_fee",
     "reflection_fee", "buyback_fee", "marketing_fee", "developer_fee"}

\* <<numerator, denominator>> of ledger l for the category a simple fee function is named after
RatioOf(l, name) ==
    CASE name = "trade_fee" -> <<l.trade_fee_numerator, l.trade_fee_denominator>>
      [] name = "admin_trade_fee" -> <<l.admin_trade_fee_numerator, l.admin_trade_fee_denominator>>
      [] name = "withdraw_fee" -> <<l.withdraw_fee_numerator, l.withdraw_fee_denominator>>
      [] name = "admin_withdraw_fee" -> <<l.admin_withdraw_fee_numerator, l.admin_withdraw_fee_denominator>>
      [] name = "reflection_fee" -> <<l.reflection_fee_numerator, l.reflection_fee_denominator>>
      [] name = "buyback_fee" -> <<l.buyback_fee_numerator, l.buyback_fee_denominator>>
      [] name = "marketing_fee" -> <<l.marketing_fee_numerator, l.marketing_fee_denominator>>
      [] name = "developer_fee" -> <<l.developer_fee_numerator, l.developer_fee_denominator>>

\* the simple fee function called `name`, applied to ledger l
SimpleFee(name, l, a) ==
    CASE name = "trade_fee" -> trade_fee(l, a)
      [] name = "admin_trade_fee" -> admin_trade_fee(l, a)
      [] name = "withdraw_fee" -> withdraw_fee(l, a)
      [] name = "admin_withdraw_fee" -> admin_withdraw_fee(l, a)
      [] name = "reflection_fee" -> reflection_fee(l, a)
      [] name = "buyback_fee" -> buyback_fee(l, a)
      [] name = "marketing_fee" -> marketing_fee(l, a)
      [] name = "developer_fee" -> developer_fee(l, a)

\* C3: a simple fee function whose own denominator is non-zero and whose product
\* amount * numerator fits in U256 returns Some(floor(amount * numerator /
\* denominator)) for its own category, and every ledger with the same two fields
\* gives the same result whatever its other fields are.
C3_SimpleFeeFloor ==
    op \in SimpleFeeOps =>
        LET r == RatioOf(fees, op)
        IN  (r[2] # 0 /\ amount * r[1] <= U256MAX) =>
                /\ ret = Some((amount * r[1]) \div r[2])
                /\ \A l \in SampleFees :
                       RatioOf(l, op) = r => SimpleFee(op, l, amount) = ret

\* the test's ledger: trade_fee 5/6 of 100 is 83
C3_Witness ==
    /\ op = "trade_fee"
    /\ fees = TestFees
    /\ amount = 100
    /\ ret = Some(83)

\* C4: a simple fee function returns None exactly when its own denominator is
\* zero or amount * numerator exceeds U256::MAX; every other outcome is Some of
\* a U256 value, so a fee of 0 is Some(0) and not the failure.
C4_FailureExactly ==
    op \in SimpleFeeOps =>
        LET r == RatioOf(fees, op)
        IN  /\ (ret = None) <=> (r[2] = 0 \/ amount * r[1] > U256MAX)
            /\ ret # None => (ret.tag = "Some" /\ ret.val \in 0..U256MAX)
            /\ (amount = 0 /\ r[2] # 0) => ret = Some(0)

\* a zero denominator fails for amount 0
C4_Witness ==
    /\ op = "withdraw_fee"
    /\ amount = 0
    /\ fees.withdraw_fee_denominator = 0
    /\ fees.withdraw_fee_numerator # 0
    /\ ret = None

\* floor(trade_fee_numerator * n_coins / (4 * (n_coins - 1))) in unbounded integers
AdjustedNumerator == (fees.trade_fee_numerator * n_coins) \div (4 * (n_coins - 1))

C6_OneCoinFails ==
    (op = "normalized_trade_fee" /\ n_coins = 1) => ret = None

\* n_coins = 1 with a ledger and an amount for which n_coins = 2 succeeds
C6_Witness ==
    /\ op = "normalized_trade_fee"
    /\ n_coins = 1
    /\ fees = TestFees
    /\ amount = 100
    /\ ret = None

WireOrder ==
    <<"admin_trade_fee_numerator", "admin_trade_fee_denominator",
      "admin_withdraw_fee_numerator", "admin_withdraw_fee_denominator",
      "trade_fee_numerator", "trade_fee_denominator",
      "withdraw_fee_numerator", "withdraw_fee_denominator",
      "reflection_fee_numerator", "reflection_fee_denominator",
      "buyback_fee_numerator", "buyback_fee_denominator",
      "marketing_fee_numerator", "marketing_fee_denominator",
      "developer_fee_numerator", "developer_fee_denominator">>

RECURSIVE LittleEndian(_)
\* the number a byte string denotes, least significant byte first
LittleEndian(b) == IF b = <<>> THEN 0 ELSE Head(b) + ByteBase * LittleEndian(Tail(b))

\* bytes [8k, 8k + 8) of region b, k from 0
WordAt(b, k) == SubSeq(b, WordBytes * k + 1, WordBytes * k + WordBytes)

\* C1: a ledger packed by pack_into_slice into a region of at least LEN bytes
\* and then decoded from it by unpack_from_slice comes back Ok and equal in all
\* sixteen fields.
C1_RoundTrip ==
    [][(op = "pack_into_slice" /\ ret.tag = "Ok" /\ op' = "unpack_from_slice") =>
           (ret' = [tag |-> "Ok", val |-> fees] /\ fees' = fees)]_vars

\* the test's ledger 1..16 decoded from the bytes it was packed into
C1_Witness ==
    /\ op = "unpack_from_slice"
    /\ ret.tag = "Ok"
    /\ pre.fees = TestFees
    /\ SubSeq(pre.buf, 1, LEN) = packed_fields(TestFees)
    /\ fees = TestFees

\* C2: after pack_into_slice the field at index k of the wire order is the
\* little-endian value of bytes [8k, 8k + 8) of the region, each a byte; after
\* unpack_from_slice the decoded field at index k is the little-endian value
\* of bytes [8k, 8k + 8) of the region it read.
C2_Layout ==
    /\ (op = "pack_into_slice" /\ ret.tag = "Ok") =>
           /\ \A i \in 1..LEN : buf[i] \in 0..(ByteBase - 1)
           /\ \A k \in 0..(NFields - 1) :
                  LittleEndian(WordAt(buf, k)) = fees[WireOrder[k + 1]]
    /\ (op = "unpack_from_slice" /\ ret.tag = "Ok") =>
           \A k \in 0..(NFields - 1) :
               fees[WireOrder[k + 1]] = LittleEndian(WordAt(pre.buf, k))

\* the test's ledger packed: the first word holds 1, the second 2
C2_Witness ==
    /\ op = "pack_into_slice"
    /\ ret.tag = "Ok"
    /\ fees = TestFees
    /\ LittleEndian(WordAt(buf, 0)) = 1
    /\ LittleEndian(WordAt(buf, 1)) = 2
    /\ LittleEndian(WordAt(buf, 15)) = 16

\* C7 as stated: unpack_from_slice on a region of fewer than LEN bytes returns
\* a format error to its caller and yields no record.
C7_FormatError ==
    (op = "unpack_from_slice" /\ Len(pre.buf) < LEN) =>
        (ret.tag = "Err" /\ fees = pre.fees)

\* C8: pack_into_slice on a region of fewer than LEN bytes fails and leaves
\* the region as it was: no truncated record is written.
C8_ShortDestination ==
    (op = "pack_into_slice" /\ Len(pre.buf) < LEN) =>
        (ret.tag # "Ok" /\ buf = pre.buf)

\* the test's ledger packed into a region one byte short
C8_Witness ==
    /\ op = "pack_into_slice"
    /\ fees = TestFees
    /\ Len(pre.buf) = LEN - 1
    /\ ret.tag = "Panic"
    /\ buf = pre.buf

\* C9: unpack_from_slice succeeds on every region of at least LEN bytes, every
\* region with the same first LEN bytes decodes to the same record, and packing
\* the decoded record back into the region leaves every byte as it was.
C9_NoValidation ==
    [][/\ (op' = "unpack_from_slice" /\ Len(buf) >= LEN) =>
              /\ ret'.tag = "Ok"
              /\ \A b \in SampleBuffers :
                     (Len(b) >= LEN /\ SubSeq(b, 1, LEN) = SubSeq(buf, 1, LEN)) =>
                         unpack_from_slice(b) = ret'
       /\ (op = "unpack_from_slice" /\ ret.tag = "Ok" /\ op' = "pack_into_slice") =>
              (ret'.tag = "Ok" /\ buf' = buf)]_vars

\* a region of LEN bytes 0xff decoded (every field u64::MAX, a ledger no caller
\* supplies) and packed back into the same region
C9_Witness ==
    /\ op = "pack_into_slice"
    /\ ret.tag = "Ok"
    /\ fees = Uniform(U64MAX, U64MAX)
    /\ pre.buf = [i \in 1..LEN |-> ByteBase - 1]
    /\ buf = pre.buf

====
